---------------------------- MODULE Spec2Model ----------------------------
(***************************************************************************)
(* Flappy Plane (src/flappyplane.js): the game loop, the plane physics,    *)
(* the pipe collision and scoring, the game-over / restart state machine,  *)
(* the best-score store and the animation-frame scheduler.                 *)
(*                                                                         *)
(* Units.  Obstacle coordinates are whole pixels, as in the source.  The   *)
(* plane's y, velocity and tilt are kept in TENTHS (of a pixel, of a       *)
(* pixel per frame, of a degree), so that GRAVITY = 0.3 and every value    *)
(* derived from it is an exact integer: Px(n) converts pixels to tenths.   *)
(***************************************************************************)
EXTENDS Integers, Sequences, FiniteSets, TLC

\* ------------------------------------------------------------ game settings
CANVAS_WIDTH == 400
CANVAS_HEIGHT == 600
PIPE_WIDTH == 50
PIPE_GAP == 140
PIPE_SPEED == 3
PIPE_SPAWN_INTERVAL == 90
\* 0.3 pixels per frame^2, in tenths
GRAVITY == 3
\* -6 pixels per frame, in tenths
JUMP_VELOCITY == -60
\* the literal 30 of "CANVAS_HEIGHT - 30": the height of the ground strip
GROUND_HEIGHT == 30
PLANE_X == 50
PLANE_WIDTH == 40
PLANE_HEIGHT == 30
minTopHeight == 50
\* maxTopHeight without the ground strip
maxTopHeight_NoGroundMargin == CANVAS_HEIGHT - 50 - PIPE_GAP
maxTopHeight == CANVAS_HEIGHT - 50 - PIPE_GAP - GROUND_HEIGHT

\* ------------------------------------------------------------------ bounds
\* simulated frames of one run
MaxFrames == 185
\* calls of startGame since the page was loaded
MaxRuns == 2
\* while a run is on, an input event arrives only between two frames whose
\* frameCount is a multiple of InputEvery
InputEvery == 10
\* largest best score a previous session left in the store
MaxStored == 1

\* Math.random() as a fraction <<numerator, denominator>> in [0, 1)
Math_random == {<<0, 1>>, <<999, 1000>>}

Px(n) == n * 10
Min(a, b) == IF a < b THEN a ELSE b
Max(a, b) == IF a > b THEN a ELSE b

\* --------------------------------------------------------------- JS values
NULL == [type |-> "null"]
JSNum(n) == [type |-> "number", num |-> n]
JSStr(t) == [type |-> "string", str |-> t]
UNDEFINED == [type |-> "undefined"]

Digit == <<"0", "1", "2", "3", "4", "5", "6", "7", "8", "9">>

\* String(n) of a non-negative integer: its decimal digits
RECURSIVE Decimal(_)
Decimal(n) == IF n < 10 THEN Digit[n + 1]
              ELSE Decimal(n \div 10) \o Digit[(n % 10) + 1]

\* the numbers a decimal string of the store can stand for in a bounded run
NumberRange == 0 .. (MaxStored + MaxFrames)

\* Number(t) of a string: "" is 0, a decimal string is its value
ParseDecimal(t) == IF t = "" THEN 0
                   ELSE CHOOSE n \in NumberRange : Decimal(n) = t

Truthy(v) == CASE v.type = "null" -> FALSE
               [] v.type = "undefined" -> FALSE
               [] v.type = "string" -> v.str # ""
               [] v.type = "number" -> v.num # 0

\* a || b
Or(a, b) == IF Truthy(a) THEN a ELSE b

\* the numeric conversion of the relational operators
ToNumber(v) == IF v.type = "number" THEN v.num ELSE ParseDecimal(v.str)

\* the string conversion localStorage.setItem applies to its value
ToStr(v) == IF v.type = "string" THEN v.str ELSE Decimal(v.num)

\* ------------------------------------------------------------ localStorage
\* the store is a function from the keys present to their string values
getItem(ls, k) == IF k \in DOMAIN ls THEN JSStr(ls[k]) ELSE NULL

setItem(ls, k, v) == [x \in (DOMAIN ls) \cup {k} |-> IF x = k THEN ToStr(v) ELSE ls[x]]

getPlayerScoreKey(name) == "flappyPlaneBestScore_" \o name

GlobalKey == "flappyPlaneBestScore"

\* ------------------------------------------------------------------- state
VARIABLES
    playerName,            \* const playerName (a string)
    bestPlayerScore,       \* let bestPlayerScore
    plane,                 \* let plane: UNDEFINED or a Plane
    obstacles,             \* let obstacles: a sequence of Obstacle
    score,
    bestScore,             \* a JS number, or the string read from the store
    isGameOver,
    frameCount,
    animationFrameId,      \* 0 stands for undefined
    localStorage,
    restartButtonDisplay,  \* restartButton.style.display
    frameCallbacks,        \* handles of the animation-frame callbacks pending
    pc,                    \* "load": lines 406-407 still to run; "ready"
    uncaught,              \* number of uncaught exceptions reported
    runs,                  \* history: calls of startGame
    entered,               \* history: executions of line 349 in this run
    last                   \* history: what the last handler did

vars == <<playerName, bestPlayerScore, plane, obstacles, score, bestScore,
          isGameOver, frameCount, animationFrameId, localStorage,
          restartButtonDisplay, frameCallbacks, pc, uncaught, runs, entered,
          last>>

\* the history record of a handler that has done nothing yet
Step(op) == [op |-> op, simulated |-> FALSE, hitGround |-> FALSE,
             hitCeiling |-> FALSE, collisionChecked |-> FALSE,
             pipeHit |-> FALSE, gameOverCalls |-> 0, scored |-> 0,
             spawned |-> 0, removed |-> 0, drawn |-> FALSE,
             scheduled |-> FALSE, jumped |-> FALSE, restarted |-> FALSE]

\* the mutable state a handler works on, as one record
State == [plane |-> plane, obstacles |-> obstacles, score |-> score,
          bestScore |-> bestScore, isGameOver |-> isGameOver,
          frameCount |-> frameCount, animationFrameId |-> animationFrameId,
          localStorage |-> localStorage,
          restartButtonDisplay |-> restartButtonDisplay,
          frameCallbacks |-> frameCallbacks, uncaught |-> uncaught,
          runs |-> runs, entered |-> entered, last |-> last]

Commit(s) ==
    /\ plane' = s.plane
    /\ obstacles' = s.obstacles
    /\ score' = s.score
    /\ bestScore' = s.bestScore
    /\ isGameOver' = s.isGameOver
    /\ frameCount' = s.frameCount
    /\ animationFrameId' = s.animationFrameId
    /\ localStorage' = s.localStorage
    /\ restartButtonDisplay' = s.restartButtonDisplay
    /\ frameCallbacks' = s.frameCallbacks
    /\ uncaught' = s.uncaught
    /\ runs' = s.runs
    /\ entered' = s.entered
    /\ last' = s.last
    /\ UNCHANGED <<playerName, bestPlayerScore>>

\* ------------------------------------------------- animation-frame scheduler
\* A handle is fresh: different from every pending handle and from the one
\* the program still holds.
FreshHandle(s) ==
    CHOOSE h \in 1 .. 4 :
        /\ h \notin s.frameCallbacks
        /\ h # s.animationFrameId
        /\ \A g \in 1 .. (h - 1) : g \in s.frameCallbacks \/ g = s.animationFrameId

cancelAnimationFrame(s, h) == [s EXCEPT !.frameCallbacks = @ \ {h}]

\* animationFrameId = requestAnimationFrame(loop)
requestAnimationFrame(s) ==
    LET h == FreshHandle(s)
    IN [s EXCEPT !.frameCallbacks = @ \cup {h},
                 !.animationFrameId = h,
                 !.last.scheduled = TRUE]

\* -------------------------------------------------------------- game over
\* gameOver without "if (isGameOver) return"
gameOver_Unguarded(s) ==
    LET called == [s EXCEPT !.last.gameOverCalls = @ + 1]
        s1 == cancelAnimationFrame(
                  [called EXCEPT !.isGameOver = TRUE, !.entered = @ + 1],
                  called.animationFrameId)
        s2 == IF s1.score > ToNumber(s1.bestScore)
              THEN LET b == JSNum(s1.score)
                   IN [s1 EXCEPT
                         !.bestScore = b,
                         !.localStorage =
                             setItem(setItem(@, GlobalKey, b),
                                     getPlayerScoreKey(playerName), b)]
              ELSE s1
    IN [s2 EXCEPT !.restartButtonDisplay = "block"]

\* gameOver saving the score without "if (score > bestScore)"
gameOver_AlwaysSaves(s) ==
    LET called == [s EXCEPT !.last.gameOverCalls = @ + 1]
    IN IF called.isGameOver THEN called
       ELSE LET s1 == cancelAnimationFrame(
                          [called EXCEPT !.isGameOver = TRUE, !.entered = @ + 1],
                          called.animationFrameId)
                b == JSNum(s1.score)
            IN [s1 EXCEPT
                  !.bestScore = b,
                  !.localStorage = setItem(setItem(@, GlobalKey, b),
                                           getPlayerScoreKey(playerName), b),
                  !.restartButtonDisplay = "block"]

gameOver(s) ==
    LET called == [s EXCEPT !.last.gameOverCalls = @ + 1]
    IN IF called.isGameOver THEN called
       ELSE LET s1 == cancelAnimationFrame(
                          [called EXCEPT !.isGameOver = TRUE, !.entered = @ + 1],
                          called.animationFrameId)
                s2 == IF s1.score > ToNumber(s1.bestScore)
                      THEN LET b == JSNum(s1.score)
                           IN [s1 EXCEPT
                                 !.bestScore = b,
                                 !.localStorage =
                                     setItem(setItem(@, GlobalKey, b),
                                             getPlayerScoreKey(playerName), b)]
                      ELSE s1
            IN [s2 EXCEPT !.restartButtonDisplay = "block"]

\* ------------------------------------------------------------------ Plane
Plane == [type |-> "Plane", x |-> PLANE_X, y |-> Px(CANVAS_HEIGHT) \div 2,
          width |-> PLANE_WIDTH, height |-> PLANE_HEIGHT, velocity |-> 0,
          tilt |-> 0]

\* Plane.update without the ceiling check
Plane_update_NoCeiling(s) ==
    LET v == s.plane.velocity + GRAVITY
        y == s.plane.y + v
        p1 == [s.plane EXCEPT !.velocity = v, !.y = y,
                              !.tilt = Min(Max(-200, v * 4), 450)]
        ground == p1.y + Px(p1.height) > Px(CANVAS_HEIGHT - GROUND_HEIGHT)
    IN IF ground
       THEN LET g == [s EXCEPT
                        !.plane = [p1 EXCEPT
                            !.y = Px(CANVAS_HEIGHT - GROUND_HEIGHT - p1.height),
                            !.velocity = 0],
                        !.last.hitGround = TRUE]
            IN IF ~g.isGameOver THEN gameOver(g) ELSE g
       ELSE [s EXCEPT !.plane = p1]

\* Plane.update ending the run at the ceiling too
Plane_update_CeilingEnds(s) ==
    LET v == s.plane.velocity + GRAVITY
        y == s.plane.y + v
        p1 == [s.plane EXCEPT !.velocity = v, !.y = y,
                              !.tilt = Min(Max(-200, v * 4), 450)]
        ground == p1.y + Px(p1.height) > Px(CANVAS_HEIGHT - GROUND_HEIGHT)
        s1 == IF ground
              THEN LET g == [s EXCEPT
                               !.plane = [p1 EXCEPT
                                   !.y = Px(CANVAS_HEIGHT - GROUND_HEIGHT - p1.height),
                                   !.velocity = 0],
                               !.last.hitGround = TRUE]
                   IN IF ~g.isGameOver THEN gameOver(g) ELSE g
              ELSE [s EXCEPT !.plane = p1]
    IN IF s1.plane.y < 0
       THEN LET c == [s1 EXCEPT !.plane.y = 0, !.plane.velocity = 0,
                                !.last.hitCeiling = TRUE]
            IN IF ~c.isGameOver THEN gameOver(c) ELSE c
       ELSE s1

\* Plane.update clamping at the ground without calling gameOver
Plane_update_GroundNotTerminal(s) ==
    LET v == s.plane.velocity + GRAVITY
        y == s.plane.y + v
        p1 == [s.plane EXCEPT !.velocity = v, !.y = y,
                              !.tilt = Min(Max(-200, v * 4), 450)]
        ground == p1.y + Px(p1.height) > Px(CANVAS_HEIGHT - GROUND_HEIGHT)
        s1 == IF ground
              THEN [s EXCEPT
                      !.plane = [p1 EXCEPT
                          !.y = Px(CANVAS_HEIGHT - GROUND_HEIGHT - p1.height),
                          !.velocity = 0],
                      !.last.hitGround = TRUE]
              ELSE [s EXCEPT !.plane = p1]
    IN IF s1.plane.y < 0
       THEN [s1 EXCEPT !.plane.y = 0, !.plane.velocity = 0,
                       !.last.hitCeiling = TRUE]
       ELSE s1

Plane_update(s) ==
    LET v == s.plane.velocity + GRAVITY
        y == s.plane.y + v
        p1 == [s.plane EXCEPT !.velocity = v, !.y = y,
                              !.tilt = Min(Max(-200, v * 4), 450)]
        ground == p1.y + Px(p1.height) > Px(CANVAS_HEIGHT - GROUND_HEIGHT)
        s1 == IF ground
              THEN LET g == [s EXCEPT
                               !.plane = [p1 EXCEPT
                                   !.y = Px(CANVAS_HEIGHT - GROUND_HEIGHT - p1.height),
                                   !.velocity = 0],
                               !.last.hitGround = TRUE]
                   IN IF ~g.isGameOver THEN gameOver(g) ELSE g
              ELSE [s EXCEPT !.plane = p1]
    IN IF s1.plane.y < 0
       THEN [s1 EXCEPT !.plane.y = 0, !.plane.velocity = 0,
                       !.last.hitCeiling = TRUE]
       ELSE s1

\* jump adding the impulse to the velocity
Plane_jump_Additive(p) == [p EXCEPT !.velocity = @ + JUMP_VELOCITY]

Plane_jump(p) == [p EXCEPT !.velocity = JUMP_VELOCITY]

\* --------------------------------------------------------------- Obstacle
\* new Obstacle(), Math.random() having returned r; id is history (the
\* number of the obstacle within its run)
Obstacle(r, id) ==
    LET topHeight == (r[1] * (maxTopHeight - minTopHeight + 1)) \div r[2]
                     + minTopHeight
        bottomY == topHeight + PIPE_GAP
    IN [x |-> CANVAS_WIDTH, width |-> PIPE_WIDTH, passed |-> FALSE,
        topHeight |-> topHeight, bottomY |-> bottomY,
        bottomHeight |-> CANVAS_HEIGHT - bottomY - GROUND_HEIGHT, id |-> id]

Obstacle_update(o) == [o EXCEPT !.x = @ - PIPE_SPEED]

\* ---------------------------------------------------------- core functions
\* setup without "frameCount = 0"
setup_KeepsFrameCount(s) ==
    [s EXCEPT !.plane = Plane, !.obstacles = <<>>, !.score = 0,
              !.isGameOver = FALSE,
              !.restartButtonDisplay = "none", !.entered = 0]

setup(s) ==
    [s EXCEPT !.plane = Plane, !.obstacles = <<>>, !.score = 0,
              !.frameCount = 0, !.isGameOver = FALSE,
              !.restartButtonDisplay = "none", !.entered = 0]

spawnObstacle(s, r) ==
    [s EXCEPT !.obstacles =
                  Append(@, Obstacle(r, s.frameCount \div PIPE_SPAWN_INTERVAL + 1)),
              !.last.spawned = @ + 1]

\* the horizontal check without its right-hand half
x_overlap_LeftEdgeOnly(p, obs) == p.x + p.width > obs.x

x_overlap(p, obs) == p.x + p.width > obs.x /\ p.x < obs.x + obs.width

top_collision(p, obs) == p.y < Px(obs.topHeight)

\* the bottom pipe never hit
bottom_collision_Never(p, obs) == FALSE

bottom_collision(p, obs) == p.y + Px(p.height) > Px(obs.bottomY)

\* the loop body scoring without "&& !obs.passed"
RECURSIVE checkCollisionFrom_Rescoring(_, _)
checkCollisionFrom_Rescoring(s, i) ==
    IF i > Len(s.obstacles) THEN s
    ELSE LET p == s.plane
             obs == s.obstacles[i]
         IN IF x_overlap(p, obs) /\ (top_collision(p, obs) \/ bottom_collision(p, obs))
            THEN gameOver([s EXCEPT !.last.pipeHit = TRUE])
            ELSE IF p.x > obs.x + obs.width
                 THEN checkCollisionFrom_Rescoring(
                          [s EXCEPT !.score = @ + 1,
                                    !.obstacles[i].passed = TRUE,
                                    !.last.scored = @ + 1], i + 1)
                 ELSE checkCollisionFrom_Rescoring(s, i + 1)

\* the body of "for (const obs of obstacles)" from the i-th obstacle on
RECURSIVE checkCollisionFrom(_, _)
checkCollisionFrom(s, i) ==
    IF i > Len(s.obstacles) THEN s
    ELSE LET p == s.plane
             obs == s.obstacles[i]
         IN IF x_overlap(p, obs) /\ (top_collision(p, obs) \/ bottom_collision(p, obs))
            THEN gameOver([s EXCEPT !.last.pipeHit = TRUE])
            ELSE IF p.x > obs.x + obs.width /\ ~obs.passed
                 THEN checkCollisionFrom(
                          [s EXCEPT !.score = @ + 1,
                                    !.obstacles[i].passed = TRUE,
                                    !.last.scored = @ + 1], i + 1)
                 ELSE checkCollisionFrom(s, i + 1)

checkCollision(s) ==
    checkCollisionFrom([s EXCEPT !.last.collisionChecked = TRUE], 1)

\* obstacles.splice(i, 1)
Splice(seq, i) == SubSeq(seq, 1, i - 1) \o SubSeq(seq, i + 1, Len(seq))

\* the obstacle loop removing with "<= 0"
RECURSIVE updateObstaclesFrom_RemovesAtEdge(_, _)
updateObstaclesFrom_RemovesAtEdge(s, i) ==
    IF i < 1 THEN s
    ELSE LET obs == Obstacle_update(s.obstacles[i])
             s1 == [s EXCEPT !.obstacles[i] = obs]
         IN IF obs.x + obs.width <= 0
            THEN updateObstaclesFrom_RemovesAtEdge(
                     [s1 EXCEPT !.obstacles = Splice(@, i),
                                !.last.removed = @ + 1], i - 1)
            ELSE updateObstaclesFrom_RemovesAtEdge(s1, i - 1)

\* the obstacle loop without the removal
RECURSIVE updateObstaclesFrom_NoRemoval(_, _)
updateObstaclesFrom_NoRemoval(s, i) ==
    IF i < 1 THEN s
    ELSE updateObstaclesFrom_NoRemoval(
             [s EXCEPT !.obstacles[i] = Obstacle_update(@)], i - 1)

\* the obstacle loop removing with "obs.x < 0", the width forgotten
RECURSIVE updateObstaclesFrom_RemovesEarly(_, _)
updateObstaclesFrom_RemovesEarly(s, i) ==
    IF i < 1 THEN s
    ELSE LET obs == Obstacle_update(s.obstacles[i])
             s1 == [s EXCEPT !.obstacles[i] = obs]
         IN IF obs.x < 0
            THEN updateObstaclesFrom_RemovesEarly(
                     [s1 EXCEPT !.obstacles = Splice(@, i),
                                !.last.removed = @ + 1], i - 1)
            ELSE updateObstaclesFrom_RemovesEarly(s1, i - 1)

\* "for (let i = obstacles.length - 1; i >= 0; i--)", from index i down
RECURSIVE updateObstaclesFrom(_, _)
updateObstaclesFrom(s, i) ==
    IF i < 1 THEN s
    ELSE LET obs == Obstacle_update(s.obstacles[i])
             s1 == [s EXCEPT !.obstacles[i] = obs]
         IN IF obs.x + obs.width < 0
            THEN updateObstaclesFrom(
                     [s1 EXCEPT !.obstacles = Splice(@, i),
                                !.last.removed = @ + 1], i - 1)
            ELSE updateObstaclesFrom(s1, i - 1)

\* update without "if (isGameOver) return"
update_Unguarded(s, r) ==
    LET s1 == Plane_update([s EXCEPT !.last.simulated = TRUE])
        s2 == IF s1.frameCount % PIPE_SPAWN_INTERVAL = 0
              THEN spawnObstacle(s1, r) ELSE s1
        s3 == [s2 EXCEPT !.frameCount = @ + 1]
        s4 == updateObstaclesFrom(s3, Len(s3.obstacles))
    IN checkCollision(s4)

update(s, r) ==
    IF s.isGameOver THEN s
    ELSE LET s1 == Plane_update([s EXCEPT !.last.simulated = TRUE])
             s2 == IF s1.frameCount % PIPE_SPAWN_INTERVAL = 0
                   THEN spawnObstacle(s1, r) ELSE s1
             s3 == [s2 EXCEPT !.frameCount = @ + 1]
             s4 == updateObstaclesFrom(s3, Len(s3.obstacles))
         IN checkCollision(s4)

\* draw() changes nothing of the game; plane.draw() on an undefined plane
\* throws a TypeError
draw(s) == IF s.plane.type = "undefined"
           THEN [s EXCEPT !.uncaught = @ + 1]
           ELSE [s EXCEPT !.last.drawn = TRUE]

loop(s, r) ==
    LET s1 == draw(update(s, r))
    IN IF s1.uncaught > s.uncaught THEN s1 ELSE requestAnimationFrame(s1)

\* startGame without cancelAnimationFrame
startGame_NoCancel(s, r) ==
    loop(setup([s EXCEPT !.runs = @ + 1, !.last.restarted = TRUE]), r)

startGame(s, r) ==
    LET s0 == [s EXCEPT !.runs = @ + 1, !.last.restarted = TRUE]
        s1 == IF s0.animationFrameId # 0
              THEN cancelAnimationFrame(s0, s0.animationFrameId) ELSE s0
    IN loop(setup(s1), r)

handleInput(s, r) ==
    IF s.isGameOver THEN startGame(s, r)
    ELSE [s EXCEPT !.plane = Plane_jump(@), !.last.jumped = TRUE]

\* ------------------------------------------------------------ initial state
\* What the store can hold when the page is loaded: nothing (a fresh
\* browser, the player is the default "Player"), or the name "Ann" entered
\* on the start page with the bests earlier sessions saved: c under Ann's key
\* and o under the default player's key (0: never saved), and the larger of
\* the two under the global key, as gameOver writes them.
Saved(k, n) == IF n = 0 THEN <<>> ELSE k :> Decimal(n)

NamedStore(c, o) ==
    ("playerName" :> "Ann")
        @@ Saved(getPlayerScoreKey("Ann"), c)
        @@ Saved(getPlayerScoreKey("Player"), o)
        @@ Saved(GlobalKey, Max(c, o))

InitialStores ==
    {<<>>} \cup {NamedStore(c, o) : c \in 0 .. MaxStored, o \in 0 .. MaxStored}

Init ==
    /\ localStorage \in InitialStores
    /\ playerName = Or(getItem(localStorage, "playerName"), JSStr("Player")).str
    /\ bestPlayerScore =
           Or(getItem(localStorage, getPlayerScoreKey(playerName)), JSNum(0))
    /\ plane = UNDEFINED
    /\ obstacles = <<>>
    /\ score = 0
    /\ bestScore = Or(getItem(localStorage, GlobalKey), JSNum(0))
    /\ isGameOver = TRUE
    /\ frameCount = 0
    /\ animationFrameId = 0
    /\ restartButtonDisplay \in {"none", "block"}
    /\ frameCallbacks = {}
    /\ pc = "load"
    /\ uncaught = 0
    /\ runs = 0
    /\ entered = 0
    /\ last = Step("declare")

\* ----------------------------------------------------------------- actions
\* lines 405-407: the initial draw() and the display of the restart button
Initialization ==
    /\ pc = "load"
    /\ pc' = "ready"
    /\ LET s0 == [State EXCEPT !.last = Step("load")]
           s1 == draw(s0)
       IN Commit(IF s1.uncaught > s0.uncaught THEN s1
                 ELSE [s1 EXCEPT !.restartButtonDisplay = "block"])

\* the browser runs a pending animation-frame callback
Frame ==
    /\ pc = "ready"
    /\ isGameOver \/ frameCount < MaxFrames
    /\ \E h \in frameCallbacks, r \in Math_random :
           Commit(loop([State EXCEPT !.frameCallbacks = @ \ {h},
                                     !.last = Step("loop")], r))
    /\ UNCHANGED pc

\* keydown of Space, click or touchstart on the canvas
Input ==
    /\ pc = "ready"
    /\ IF isGameOver THEN runs < MaxRuns ELSE frameCount % InputEvery = 0
    /\ \E r \in Math_random :
           Commit(handleInput([State EXCEPT !.last = Step("handleInput")], r))
    /\ UNCHANGED pc

\* click on the restart button, which is clickable while it is displayed
RestartClick ==
    /\ pc = "ready"
    /\ restartButtonDisplay # "none"
    /\ runs < MaxRuns
    /\ \E r \in Math_random :
           Commit(startGame([State EXCEPT !.last = Step("restartClick")], r))
    /\ UNCHANGED pc

Next == Initialization \/ Frame \/ Input \/ RestartClick

Spec == Init /\ [][Next]_vars


\* ------------------------------------------------------------------ claims
\* what the page shows and keeps: the values a reader of the game observes
StoredGlobal == ToNumber(Or(getItem(localStorage, GlobalKey), JSNum(0)))

StoredPlayer ==
    ToNumber(Or(getItem(localStorage, getPlayerScoreKey(playerName)), JSNum(0)))

\* C1: a run enters GameOver at most once (line 349 runs at most once per
\* run, and exactly once in a run that is over), also in a frame in which
\* the ground hit and the pipe hit both call gameOver(); and a call of
\* gameOver() in any state in which isGameOver is already true, the Idle
\* state included, leaves score, bestScore, the store and every other
\* variable as they are.
C1_GameOverOnce ==
    /\ entered <= 1
    /\ runs > 0 => (isGameOver <=> entered = 1)
    /\ isGameOver =>
           LET again == gameOver(State)
           IN /\ again.score = score
              /\ again.bestScore = bestScore
              /\ again.localStorage = localStorage
              /\ again.isGameOver
              /\ again.entered = entered
              /\ again.frameCallbacks = frameCallbacks
              /\ again.restartButtonDisplay = restartButtonDisplay

\* a frame in which the plane hit the ground while it was inside a pipe's
\* columns: gameOver() was called twice
C1_Witness ==
    isGameOver /\ last.hitGround /\ last.pipeHit /\ last.gameOverCalls = 2

\* C2: in every step of a run the passed flag of an obstacle never goes
\* back to false, and score grows by exactly the number of obstacles whose
\* flag went from false to true in that step, so each obstacle adds 1 once.
C2_PassedOnce ==
    [][runs' = runs =>
          /\ \A i \in DOMAIN obstacles, j \in DOMAIN obstacles' :
                 (obstacles[i].id = obstacles'[j].id /\ obstacles[i].passed)
                     => obstacles'[j].passed
          /\ score' = score + Cardinality(
                 {j \in DOMAIN obstacles' :
                      /\ obstacles'[j].passed
                      /\ ~\E i \in DOMAIN obstacles :
                             /\ obstacles[i].id = obstacles'[j].id
                             /\ obstacles[i].passed})]_vars

\* a running game in which an obstacle was passed some frames ago
C2_Witness ==
    /\ ~isGameOver
    /\ score = 1
    /\ \E i \in DOMAIN obstacles :
           /\ obstacles[i].passed
           /\ plane.x > obstacles[i].x + obstacles[i].width + 2 * PIPE_SPEED

\* C3: the global best score, in memory and in the store, never decreases,
\* changes only in a step that takes the game from Running to GameOver, and
\* after that step is the larger of its previous value and the run's score.
C3_BestScoreMax ==
    [][/\ ToNumber(bestScore') >= ToNumber(bestScore)
       /\ StoredGlobal' >= StoredGlobal
       /\ (ToNumber(bestScore') # ToNumber(bestScore) \/ StoredGlobal' # StoredGlobal)
              => (~isGameOver /\ isGameOver')
       /\ (~isGameOver /\ isGameOver')
              => /\ ToNumber(bestScore') = Max(ToNumber(bestScore), score')
                 /\ StoredGlobal' = Max(StoredGlobal, score')]_vars

\* a run of this session ended with a new best score, now stored
C3_Witness ==
    /\ isGameOver
    /\ score >= 1
    /\ bestScore = JSNum(score)
    /\ getItem(localStorage, GlobalKey) = JSStr(Decimal(score))

\* C4: after the step that ends a run, the value stored under the current
\* player's key is the larger of its previous value and the run's score.
C4_PlayerBestMax ==
    [][(~isGameOver /\ isGameOver')
          => StoredPlayer' = Max(StoredPlayer, score')]_vars

\* C5: at most one loop iteration is pending in the frame scheduler.
C5_OnePendingLoop == Cardinality(frameCallbacks) <= 1

\* a restart that found an iteration of the previous loop pending
C5_Witness ==
    last.restarted /\ runs >= 2 /\ Cardinality(frameCallbacks) = 1

\* C6 as stated: after a restart action score is 0, the obstacle list is
\* empty, frameCount is 0, the plane is at its spawn position with velocity
\* 0 and isGameOver is false.
C6_RestartLeavesFreshState ==
    last.restarted =>
        /\ score = 0
        /\ obstacles = <<>>
        /\ frameCount = 0
        /\ plane.y = Px(CANVAS_HEIGHT) \div 2
        /\ plane.velocity = 0
        /\ ~isGameOver

\* C6 amended: setup() resets all of that, and startGame runs the first
\* loop iteration before it returns; after a restart action score is 0 and
\* isGameOver is false, frameCount is 1, the list holds the one obstacle
\* spawned and moved in that iteration, and the plane has made one gravity
\* step from its spawn position.
C6_RestartRunsFirstFrame ==
    /\ LET fresh == setup(State)
       IN /\ fresh.score = 0
          /\ fresh.obstacles = <<>>
          /\ fresh.frameCount = 0
          /\ fresh.plane.y = Px(CANVAS_HEIGHT) \div 2
          /\ fresh.plane.velocity = 0
          /\ ~fresh.isGameOver
    /\ last.restarted =>
           /\ score = 0
           /\ ~isGameOver
           /\ frameCount = 1
           /\ Len(obstacles) = 1
           /\ obstacles[1].x = CANVAS_WIDTH - PIPE_SPEED
           /\ ~obstacles[1].passed
           /\ plane.x = PLANE_X
           /\ plane.y = Px(CANVAS_HEIGHT) \div 2 + GRAVITY
           /\ plane.velocity = GRAVITY
           /\ last.simulated /\ last.spawned = 1

\* a restart after a run of this session that had scored
C6_Witness ==
    /\ last.restarted /\ runs = 2 /\ frameCount = 1
    /\ bestScore.type = "number" /\ bestScore.num >= 1

\* C7: after every Plane.update of a running game y is within
\* [0, CANVAS_HEIGHT - 30 - height], and the velocity is 0 when that update
\* clamped y at the floor or at the ceiling.
C7_PlaneInBounds ==
    last.simulated =>
        /\ 0 <= plane.y
        /\ plane.y <= Px(CANVAS_HEIGHT - 30 - plane.height)
        /\ (last.hitGround \/ last.hitCeiling) => plane.velocity = 0
        /\ last.hitGround => plane.y = Px(CANVAS_HEIGHT - 30 - plane.height)
        /\ last.hitCeiling => plane.y = 0

\* an update that clamped the plane at the ceiling
C7_Witness == last.simulated /\ last.hitCeiling /\ ~isGameOver

\* C8: a loop iteration that begins while isGameOver is true draws and
\* schedules the next iteration and leaves plane, obstacles, score and
\* frameCount as they were; the iteration that enters GameOver draws and
\* schedules the next iteration too.
C8_GameOverLoopIdles ==
    [][last'.op = "loop" =>
          /\ last'.drawn /\ last'.scheduled
          /\ animationFrameId' \in frameCallbacks'
          /\ isGameOver =>
                 /\ ~last'.simulated
                 /\ plane' = plane
                 /\ obstacles' = obstacles
                 /\ score' = score
                 /\ frameCount' = frameCount
                 /\ isGameOver'
          /\ ~isGameOver => last'.simulated]_vars

\* an iteration that ran in GameOver, with the plane stopped above ground
C8_Witness ==
    /\ last.op = "loop" /\ isGameOver /\ ~last.simulated
    /\ last.drawn /\ last.scheduled
    /\ plane.y < Px(CANVAS_HEIGHT - 30 - plane.height)

\* C9: handleInput in a running game sets the velocity to JUMP_VELOCITY and
\* changes nothing else, and the next update moves the plane by
\* JUMP_VELOCITY + GRAVITY; handleInput while isGameOver is true does not
\* jump and restarts the run.
C9_JumpOrRestart ==
    [][/\ (last'.op = "handleInput" /\ ~isGameOver) =>
              /\ last'.jumped /\ ~last'.restarted
              /\ plane' = [plane EXCEPT !.velocity = JUMP_VELOCITY]
              /\ UNCHANGED <<obstacles, score, frameCount, isGameOver,
                             bestScore, localStorage, runs>>
       /\ (last'.op = "handleInput" /\ isGameOver) =>
              /\ last'.restarted /\ ~last'.jumped
              /\ runs' = runs + 1
              /\ ~isGameOver' /\ score' = 0
       /\ (last.jumped /\ last'.op = "loop") =>
              \/ last'.hitCeiling
              \/ /\ plane'.velocity = JUMP_VELOCITY + GRAVITY
                 /\ plane'.y = plane.y + JUMP_VELOCITY + GRAVITY]_vars

\* a jump made while the plane was falling
C9_Witness ==
    /\ last.op = "handleInput" /\ last.jumped /\ ~isGameOver
    /\ plane.velocity = JUMP_VELOCITY
    /\ plane.tilt > 0

\* C10: checkCollision reports a pipe hit (calls gameOver and returns true)
\* exactly when some live obstacle overlaps the plane horizontally while the
\* plane is above the gap's top or below its bottom; and an obstacle behind
\* the one that was hit is not scored in that call.
C10_PipeHitIffOverlapOutsideGap ==
    [][last'.collisionChecked =>
          /\ last'.pipeHit <=>
                 \E i \in DOMAIN obstacles' :
                     LET o == obstacles'[i]
                     IN /\ plane'.x + plane'.width > o.x
                        /\ plane'.x < o.x + o.width
                        /\ \/ plane'.y < Px(o.topHeight)
                           \/ plane'.y + Px(plane'.height) > Px(o.bottomY)
          /\ last'.pipeHit =>
                 /\ isGameOver'
                 /\ \A i \in DOMAIN obstacles' :
                        (\E k \in 1 .. i :
                             /\ plane'.x + plane'.width > obstacles'[k].x
                             /\ plane'.x < obstacles'[k].x + obstacles'[k].width)
                            => \A j \in DOMAIN obstacles :
                                   obstacles[j].id = obstacles'[i].id
                                       => obstacles'[i].passed = obstacles[j].passed]_vars

\* a pipe hit in a frame in which the plane did not touch the ground
C10_Witness ==
    last.collisionChecked /\ last.pipeHit /\ ~last.hitGround /\ isGameOver

\* C11: every obstacle has 50 <= topHeight <= CANVAS_HEIGHT - 50 - PIPE_GAP
\* - 30, bottomY = topHeight + PIPE_GAP and bottomHeight = CANVAS_HEIGHT -
\* bottomY - 30 >= 0 (the gap lies between the ceiling and the ground line),
\* and these fields and the width are the same in every later state.
C11_GapOnScreen ==
    [][/\ \A j \in DOMAIN obstacles' :
              LET o == obstacles'[j]
              IN /\ 50 <= o.topHeight
                 /\ o.topHeight <= CANVAS_HEIGHT - 50 - PIPE_GAP - 30
                 /\ o.bottomY = o.topHeight + PIPE_GAP
                 /\ o.bottomHeight = CANVAS_HEIGHT - o.bottomY - 30
                 /\ o.bottomHeight >= 0
                 /\ o.topHeight > 0 /\ o.bottomY < CANVAS_HEIGHT - 30
                 /\ o.width = PIPE_WIDTH
       /\ runs' = runs =>
              \A i \in DOMAIN obstacles, j \in DOMAIN obstacles' :
                  obstacles[i].id = obstacles'[j].id =>
                      /\ obstacles'[j].topHeight = obstacles[i].topHeight
                      /\ obstacles'[j].bottomY = obstacles[i].bottomY
                      /\ obstacles'[j].bottomHeight = obstacles[i].bottomHeight
                      /\ obstacles'[j].width = obstacles[i].width]_vars

\* an obstacle with the highest gap and one with the lowest gap, both alive
C11_Witness ==
    /\ Len(obstacles) = 2
    /\ obstacles[1].topHeight = 50
    /\ obstacles[2].topHeight = CANVAS_HEIGHT - 50 - PIPE_GAP - 30
    /\ obstacles[1].x < PLANE_X

\* C12: while isGameOver is true nothing of the simulation moves: no
\* obstacle is spawned, moved or removed, frameCount stays and
\* checkCollision does not run, also in the rest of the frame in which the
\* ground hit of Plane.update has set isGameOver.
C12_NoUpdateOnceOver ==
    [][runs' = runs =>
          /\ isGameOver =>
                 /\ obstacles' = obstacles
                 /\ frameCount' = frameCount
                 /\ ~last'.collisionChecked
          /\ (last'.op = "loop" /\ last'.hitGround) =>
                 /\ obstacles' = obstacles
                 /\ frameCount' = frameCount
                 /\ last'.spawned = 0 /\ last'.removed = 0
                 /\ ~last'.collisionChecked]_vars

\* C13: a step takes a running game to GameOver only if in it the plane's
\* bottom went below the floor line or checkCollision found a pipe hit; a
\* step in which the bottom goes below the floor line always ends the run;
\* a step in which the plane goes above the ceiling without a pipe hit
\* leaves the game running, the plane at y = 0 with velocity 0.
C13_OnlyGroundOrPipeEnds ==
    [][(~isGameOver /\ last'.op = "loop") =>
          LET y == plane.y + plane.velocity + GRAVITY
              ground == y + Px(plane.height) > Px(CANVAS_HEIGHT - 30)
              ceiling == y < 0
          IN /\ isGameOver' => (ground \/ last'.pipeHit)
             /\ ground => isGameOver'
             /\ ground <=> last'.hitGround
             /\ ceiling <=> last'.hitCeiling
             /\ (ceiling /\ ~last'.pipeHit) =>
                    /\ ~isGameOver'
                    /\ plane'.y = 0 /\ plane'.velocity = 0]_vars

\* a run that the ground alone ended, no pipe being near
C13_Witness ==
    /\ isGameOver /\ last.hitGround /\ ~last.pipeHit /\ entered = 1
    /\ last.gameOverCalls = 1

\* C14: a simulated frame adds 1 to frameCount; it spawns one obstacle when
\* frameCount before it (0 right after setup) is a multiple of
\* PIPE_SPAWN_INTERVAL and none otherwise; an obstacle is created at x =
\* CANVAS_WIDTH and every simulated frame, the one that created it
\* included, moves it left by PIPE_SPEED; it leaves the list in the first
\* frame that makes x + width < 0; a step that simulates nothing leaves
\* frameCount and the list alone.
C14_SpawnMoveRemove ==
    [][LET preCount == IF last'.restarted THEN 0 ELSE frameCount
           pre == IF last'.restarted THEN <<>> ELSE obstacles
           gone == {i \in DOMAIN pre : pre[i].x - PIPE_SPEED + pre[i].width < 0}
           born == {j \in DOMAIN obstacles' :
                        \A i \in DOMAIN pre : pre[i].id # obstacles'[j].id}
       IN /\ \A r \in Math_random : Obstacle(r, 1).x = CANVAS_WIDTH
          /\ last'.simulated =>
                 /\ frameCount' = preCount + 1
                 /\ last'.spawned = IF preCount % PIPE_SPAWN_INTERVAL = 0 THEN 1 ELSE 0
                 /\ Cardinality(born) = last'.spawned
                 /\ \A j \in born :
                        /\ obstacles'[j].x = CANVAS_WIDTH - PIPE_SPEED
                        /\ ~obstacles'[j].passed
                 /\ \A i \in DOMAIN pre :
                        IF i \in gone
                        THEN \A j \in DOMAIN obstacles' : obstacles'[j].id # pre[i].id
                        ELSE \E j \in DOMAIN obstacles' :
                                 /\ obstacles'[j].id = pre[i].id
                                 /\ obstacles'[j].x = pre[i].x - PIPE_SPEED
                 /\ last'.removed = Cardinality(gone)
                 /\ \A j \in DOMAIN obstacles' :
                        obstacles'[j].x + obstacles'[j].width >= 0
          /\ ~last'.simulated =>
                 /\ frameCount' = frameCount
                 /\ obstacles' = obstacles
                 /\ last'.spawned = 0 /\ last'.removed = 0]_vars

\* the frame that removed the first obstacle of a run
C14_Witness ==
    /\ last.simulated /\ last.removed = 1 /\ ~isGameOver
    /\ frameCount = (CANVAS_WIDTH + PIPE_WIDTH) \div PIPE_SPEED + 1

\* C15: from the step that ends a run until the next restart score does
\* not change; in particular the frame in which the ground hit ends the
\* run scores nothing after gameOver() has compared score with bestScore,
\* so the best score is at least the final score of the run.
C15_ScoreFinalAtGameOver ==
    [][/\ (isGameOver /\ runs' = runs) => score' = score
       /\ last'.hitGround => (last'.scored = 0 /\ score' = score)
       /\ (~isGameOver /\ isGameOver') => ToNumber(bestScore') >= score'
       /\ isGameOver' => ToNumber(bestScore') >= score']_vars

\* a run with a score that the ground ended
C15_Witness ==
    isGameOver /\ last.hitGround /\ last.collisionChecked /\ score >= 1

\* C16: no handler dereferences plane while it is undefined: no TypeError
\* is ever thrown, the draw() of the page load included.
C16_PlaneDefinedWhenUsed ==
    /\ uncaught = 0
    /\ last.drawn => plane.type = "Plane"
    /\ pc = "ready" => (last.op = "load" => last.drawn)

\* C17: after a simulated frame the list holds at most 2 obstacles, in
\* spawn order, consecutive ones 270 apart, each with
\* -PIPE_WIDTH <= x < CANVAS_WIDTH.
C17_AtMostTwoObstacles ==
    last.simulated =>
        /\ Len(obstacles) <= 2
        /\ \A i \in DOMAIN obstacles :
               /\ -PIPE_WIDTH <= obstacles[i].x
               /\ obstacles[i].x < CANVAS_WIDTH
        /\ \A i \in 1 .. (Len(obstacles) - 1) :
               /\ obstacles[i + 1].x - obstacles[i].x = 270
               /\ obstacles[i + 1].x - obstacles[i].x = PIPE_SPEED * PIPE_SPAWN_INTERVAL
               /\ obstacles[i + 1].id = obstacles[i].id + 1

\* the second and the third obstacle of a run alone in the list
C17_Witness ==
    /\ last.simulated /\ Len(obstacles) = 2
    /\ obstacles[1].id = 2 /\ obstacles[2].id = 3

\* C18: an obstacle that leaves the list in a run has passed = true; and
\* after a simulated frame score is the number of obstacles of the run with
\* passed set: those that left the list (the number spawned so far less
\* the number in the list) and those in the list with passed = true.
C18_ScoreCountsPassed ==
    [][/\ runs' = runs =>
              \A i \in DOMAIN obstacles :
                  (\A j \in DOMAIN obstacles' : obstacles'[j].id # obstacles[i].id)
                      => obstacles[i].passed
       /\ last'.simulated =>
              LET made == (frameCount' - 1) \div PIPE_SPAWN_INTERVAL + 1
                  left == made - Len(obstacles')
                  set == {j \in DOMAIN obstacles' : obstacles'[j].passed}
              IN /\ left >= 0
                 /\ score' = left + Cardinality(set)]_vars

\* the first obstacle passed, scored and gone, the second not yet passed
C18_Witness ==
    /\ ~isGameOver /\ score = 1 /\ last.simulated
    /\ Len(obstacles) = 1 /\ obstacles[1].id = 2 /\ ~obstacles[1].passed

\* ------------------------------------------------------ a run without input
\* an input event that starts a run: none arrives while a run is on
Start == isGameOver /\ Input

NextQuiet == Initialization \/ Frame \/ Start \/ RestartClick

\* a callback is pending and the browser may run it: ENABLED <<Frame>>_vars
FrameDue ==
    /\ pc = "ready"
    /\ isGameOver \/ frameCount < MaxFrames
    /\ frameCallbacks # {}

\* the browser keeps calling the pending animation-frame callback:
\* WF_vars(Frame), with ENABLED <<Frame>>_vars written as FrameDue and the
\* Frame steps recognised as the steps that leave last.op = "loop"
SpecQuiet ==
    /\ Init /\ [][NextQuiet]_vars
    /\ ([]<>~FrameDue) \/ ([]<><<last'.op = "loop">>_vars)

\* C19: a run that gets no input has score 0 and no obstacle passed while
\* it is on, is over before frameCount reaches PIPE_SPAWN_INTERVAL, and
\* does end: by the ground hit, with score 0.
C19_QuietRunEndsOnGround ==
    /\ [](~isGameOver =>
              /\ frameCount < PIPE_SPAWN_INTERVAL
              /\ score = 0
              /\ \A i \in DOMAIN obstacles : ~obstacles[i].passed)
    /\ []((runs > 0 /\ isGameOver) =>
              /\ frameCount < 90
              /\ score = 0
              /\ entered = 1
              /\ \A i \in DOMAIN obstacles : ~obstacles[i].passed)
    /\ []((isGameOver /\ last.gameOverCalls > 0) =>
              (last.hitGround /\ ~last.pipeHit))
    /\ (~isGameOver) ~> (isGameOver /\ last.hitGround /\ score = 0)

\* the frame in which the plane, never lifted, reached the ground
C19_Witness ==
    /\ isGameOver /\ last.hitGround /\ score = 0
    /\ frameCount = 40 /\ Len(obstacles) = 1 /\ ~last.jumped

=============================================================================
